---- MODULE Spec2Model ----
(***************************************************************************)
(* Model of src/cluster.cpp: cosine similarity of two sparse spectra by a  *)
(* merge-walk, the string-keyed bucket index of cluster representatives,   *)
(* and the two clustering loops (cluster_spectra, naive_cluster_spectra).  *)
(*                                                                         *)
(* Units.  Peak masses are integers counting hundredths (0.01), pepmasses  *)
(* are integers counting whole mass units, intensities are integers.  A    *)
(* similarity score is kept exactly as the three accumulators of the       *)
(* merge-walk (score, a_den, b_den); the quotient score/sqrt(a_den*b_den)  *)
(* is compared through its square, and a zero denominator is the IEEE      *)
(* outcome of the float division (0/0 = NaN, x/0 = +-inf).                 *)
(***************************************************************************)
EXTENDS Integers, Sequences, FiniteSets, TLC

VARIABLES spectra, clusters, peak_buckets, i, candidates,
          naive_clusters, ni, tested,
          ca, cb, cos_ab, cos_ba, cos_aa, pending

vars == <<spectra, clusters, peak_buckets, i, candidates,
          naive_clusters, ni, tested,
          ca, cb, cos_ab, cos_ba, cos_aa, pending>>

clusterVars == <<spectra, clusters, peak_buckets, i, candidates, naive_clusters, ni, tested>>
cosVars == <<ca, cb, cos_ab, cos_ba, cos_aa, pending>>

(***************************************************************************)
(* Bounds of the model.                                                    *)
(***************************************************************************)
\* Clustering runs: at most NumSpectra spectra, pepmasses 0..MaxPepmass, at
\* most MaxPeaks peaks (plus the spectra of LongSpectra) with masses
\* 0..MaxPeak hundredths and intensities 1..MaxIntensity.
NumSpectra == 3
MaxPepmass == 2
MaxPeaks == 2
MaxPeak == 2
MaxIntensity == 1
\* Similarity computations: at most CosMaxPeaks peaks with masses
\* 0..CosMaxPeak hundredths and intensities 0..CosMaxIntensity.
CosMaxPeaks == 2
CosMaxPeak == 2
CosMaxIntensity == 2

(***************************************************************************)
(* Program constants.                                                      *)
(***************************************************************************)
DEFAULT_PEPMASS_THRESHOLD == 2
DEFAULT_PEAK_THRESHOLD == 2
\* 0.7 as the fraction SIM_NUM / SIM_DEN
SIM_NUM == 7
SIM_DEN == 10
PROBE_COUNT == 5

Abs(x) == IF x < 0 THEN -x ELSE x
Min(x, y) == IF x < y THEN x ELSE y

(***************************************************************************)
(* spectrum_t values.                                                      *)
(***************************************************************************)
IsSorted(s) == \A k \in 1..(Len(s) - 1) : s[k] <= s[k + 1]

MkSpectrum(pm, pk, it) ==
    [pepmass |-> pm, peaks |-> pk, intensities |-> it, num_peaks |-> Len(pk)]

SpectraOver(pepmasses, peakVals, intVals, maxLen) ==
    UNION {{MkSpectrum(pm, pk, it) :
                pm \in pepmasses,
                pk \in {s \in [1..m -> peakVals] : IsSorted(s)},
                it \in [1..m -> intVals]} : m \in 0..maxLen}

(***************************************************************************)
(* Similarity engine (cluster.cpp lines 27-60).                            *)
(***************************************************************************)
\* passes_pepmass_test with <= in place of <
passes_pepmass_test_inclusive(a, b) == Abs(a.pepmass - b.pepmass) <= DEFAULT_PEPMASS_THRESHOLD

passes_pepmass_test(a, b) == Abs(a.pepmass - b.pepmass) < DEFAULT_PEPMASS_THRESHOLD

\* is_identical_peak without fabs
is_identical_peak_nofabs(a, b) == (a - b) < DEFAULT_PEAK_THRESHOLD

is_identical_peak(a, b) == Abs(a - b) < DEFAULT_PEAK_THRESHOLD

\* The merge-walk with the sums of squares accumulating the intensity
\* instead of its square.
RECURSIVE MergeWalk_unsquared(_, _, _, _, _, _, _, _)
MergeWalk_unsquared(a, b, ii, jj, score, a_den, b_den, matched) ==
    IF ~(ii < a.num_peaks /\ jj < b.num_peaks)
    THEN [score |-> score, a_den |-> a_den, b_den |-> b_den, matched |-> matched]
    ELSE IF is_identical_peak(a.peaks[ii + 1], b.peaks[jj + 1])
         THEN MergeWalk_unsquared(a, b, ii + 1, jj + 1,
                        score + a.intensities[ii + 1] * b.intensities[jj + 1],
                        a_den + a.intensities[ii + 1],
                        b_den + b.intensities[jj + 1],
                        matched \cup {<<ii, jj>>})
         ELSE IF a.peaks[ii + 1] < b.peaks[jj + 1]
              THEN MergeWalk_unsquared(a, b, ii + 1, jj, score,
                             a_den + a.intensities[ii + 1], b_den, matched)
              ELSE MergeWalk_unsquared(a, b, ii, jj + 1, score, a_den,
                             b_den + b.intensities[jj + 1], matched)

\* The while loop of cosine_similarity; ii and jj are the 0-based cursors.
\* matched records the cursor pairs whose peaks were found identical.
RECURSIVE MergeWalk(_, _, _, _, _, _, _, _)
MergeWalk(a, b, ii, jj, score, a_den, b_den, matched) ==
    IF ~(ii < a.num_peaks /\ jj < b.num_peaks)
    THEN [score |-> score, a_den |-> a_den, b_den |-> b_den, matched |-> matched]
    ELSE IF is_identical_peak(a.peaks[ii + 1], b.peaks[jj + 1])
         THEN MergeWalk(a, b, ii + 1, jj + 1,
                        score + a.intensities[ii + 1] * b.intensities[jj + 1],
                        a_den + a.intensities[ii + 1] * a.intensities[ii + 1],
                        b_den + b.intensities[jj + 1] * b.intensities[jj + 1],
                        matched \cup {<<ii, jj>>})
         ELSE IF a.peaks[ii + 1] < b.peaks[jj + 1]
              THEN MergeWalk(a, b, ii + 1, jj, score,
                             a_den + a.intensities[ii + 1] * a.intensities[ii + 1], b_den,
                             matched)
              \* a.peaks[i] > b.peaks[j]: two peaks that are not identical differ
              ELSE MergeWalk(a, b, ii, jj + 1, score, a_den,
                             b_den + b.intensities[jj + 1] * b.intensities[jj + 1],
                             matched)

\* The accumulators at the return statement: the value returned is
\* score / sqrt(a_den * b_den).
cosine_similarity(a, b) == MergeWalk(a, b, 0, 0, 0, 0, 0, {})

ZeroDenominator(r) == r.a_den * r.b_den = 0

\* r = score / sqrt(a_den * b_den) is NaN: 0/0.
IsNaN(r) == ZeroDenominator(r) /\ r.score = 0

\* r == 1.0
IsOne(r) == ~ZeroDenominator(r) /\ r.score > 0 /\ r.score * r.score = r.a_den * r.b_den

\* !(r <= 0.7) in place of r > 0.7: a NaN compares true.
NotAtMostThreshold(r) ==
    IF ZeroDenominator(r)
    THEN r.score >= 0
    ELSE r.score > 0 /\
         SIM_DEN * SIM_DEN * r.score * r.score > SIM_NUM * SIM_NUM * r.a_den * r.b_den

\* r > 0.7; a NaN compares false, +inf compares true.
ExceedsThreshold(r) ==
    IF ZeroDenominator(r)
    THEN r.score > 0
    ELSE r.score > 0 /\
         SIM_DEN * SIM_DEN * r.score * r.score > SIM_NUM * SIM_NUM * r.a_den * r.b_den

is_similar(a, b) == ExceedsThreshold(cosine_similarity(a, b))

(***************************************************************************)
(* Representative array and bucket index (cluster.cpp lines 67-105).       *)
(***************************************************************************)
initialize_cluster(sz) == [k \in 0..(sz - 1) |-> k]

\* The key is the text "%.2f" of nearest/100: its integer part and its two
\* decimals.  floorf(peak * 100) of a peak counted in hundredths is the count.
get_peak_bucket(peak) ==
    LET round_peak == peak
        nearest == (round_peak \div 2) * 2
    IN  <<nearest \div 100, nearest % 100>>

\* peak_buckets[key], where operator[] of the map yields an empty list for an
\* absent key.
BucketList(pb, key) == IF key \in DOMAIN pb THEN pb[key] ELSE <<>>

\* get_common_peak_candidates probing the first peak only.
RECURSIVE CollectCandidates_first(_, _, _, _)
CollectCandidates_first(spectrum, pb, k, acc) ==
    IF ~(k < Min(1, spectrum.num_peaks))
    THEN acc
    ELSE LET peak_str == <<((spectrum.peaks[k + 1] \div 2) * 2) \div 100,
                           ((spectrum.peaks[k + 1] \div 2) * 2) % 100>>
         IN  CollectCandidates_first(spectrum, pb, k + 1,
                 IF peak_str \in DOMAIN pb THEN acc \o pb[peak_str] ELSE acc)

\* The loop of get_common_peak_candidates from peak k on; acc is the vector
\* candidates built so far.
RECURSIVE CollectCandidates(_, _, _, _)
CollectCandidates(spectrum, pb, k, acc) ==
    IF ~(k < Min(PROBE_COUNT, spectrum.num_peaks))
    THEN acc
    ELSE LET peak_str == get_peak_bucket(spectrum.peaks[k + 1])
         IN  CollectCandidates(spectrum, pb, k + 1,
                 IF peak_str \in DOMAIN pb THEN acc \o pb[peak_str] ELSE acc)

\* std::set iteration order: ascending, without duplicates.
RECURSIVE SetToSortedSeq(_)
SetToSortedSeq(S) ==
    IF S = {} THEN <<>>
    ELSE LET m == CHOOSE x \in S : \A y \in S : x <= y
         IN  <<m>> \o SetToSortedSeq(S \ {m})

get_common_peak_candidates(spectrum, pb) ==
    LET cand == CollectCandidates(spectrum, pb, 0, <<>>)
        unq == {cand[k] : k \in 1..Len(cand)}
    IN  SetToSortedSeq(unq)

\* bucket_spectrum_peaks registering every peak, not the first five.
RECURSIVE bucket_spectrum_peaks_all(_, _, _, _)
bucket_spectrum_peaks_all(pb, spectrum, idx, k) ==
    IF ~(k < spectrum.num_peaks)
    THEN pb
    ELSE LET peak == get_peak_bucket(spectrum.peaks[k + 1])
             pushed == IF peak \in DOMAIN pb
                       THEN [pb EXCEPT ![peak] = Append(@, idx)]
                       ELSE pb @@ (peak :> <<idx>>)
         IN  bucket_spectrum_peaks_all(pushed, spectrum, idx, k + 1)

\* The loop of bucket_spectrum_peaks from peak k on.
RECURSIVE bucket_spectrum_peaks_from(_, _, _, _)
bucket_spectrum_peaks_from(pb, spectrum, idx, k) ==
    IF ~(k < Min(PROBE_COUNT, spectrum.num_peaks))
    THEN pb
    ELSE LET peak == get_peak_bucket(spectrum.peaks[k + 1])
             pushed == IF peak \in DOMAIN pb
                       THEN [pb EXCEPT ![peak] = Append(@, idx)]
                       ELSE pb @@ (peak :> <<idx>>)
         IN  bucket_spectrum_peaks_from(pushed, spectrum, idx, k + 1)

bucket_spectrum_peaks(pb, spectrum, idx) == bucket_spectrum_peaks_from(pb, spectrum, idx, 0)

(***************************************************************************)
(* Clustering driver (cluster.cpp lines 122-165).                          *)
(***************************************************************************)
Accepts(sp, idx, candidate) ==
    passes_pepmass_test(sp[idx], sp[candidate]) /\ is_similar(sp[idx], sp[candidate])

\* The candidate loop without its break: the last accepted candidate wins.
RECURSIVE ScanCandidates_nobreak(_, _, _, _)
ScanCandidates_nobreak(sp, idx, cands, k) ==
    IF k > Len(cands) THEN -1
    ELSE LET rest == ScanCandidates_nobreak(sp, idx, cands, k + 1)
         IN  IF rest # -1 THEN rest
             ELSE IF Accepts(sp, idx, cands[k]) THEN cands[k] ELSE -1

\* The candidate loop of cluster_spectra from position k of cands on: the
\* candidate that breaks the loop, or -1 when the loop runs to its end.
RECURSIVE ScanCandidates(_, _, _, _)
ScanCandidates(sp, idx, cands, k) ==
    IF k > Len(cands) THEN -1
    ELSE IF Accepts(sp, idx, cands[k]) THEN cands[k]
    ELSE ScanCandidates(sp, idx, cands, k + 1)

\* The inner loop with candidate = j in place of candidate = clusters[j].
RECURSIVE NaiveScan_member(_, _, _, _, _, _)
NaiveScan_member(cl, sp, idx, j, seen, tried) ==
    IF ~(j < idx) THEN [found |-> -1, tried |-> tried]
    ELSE LET candidate == j
         IN  IF candidate \in seen
             THEN NaiveScan_member(cl, sp, idx, j + 1, seen, tried)
             ELSE IF Accepts(sp, idx, candidate)
                  THEN [found |-> candidate, tried |-> Append(tried, candidate)]
                  ELSE NaiveScan_member(cl, sp, idx, j + 1, seen \cup {candidate},
                                        Append(tried, candidate))

\* The inner loop without the seen_candidates set.
RECURSIVE NaiveScan_noseen(_, _, _, _, _, _)
NaiveScan_noseen(cl, sp, idx, j, seen, tried) ==
    IF ~(j < idx) THEN [found |-> -1, tried |-> tried]
    ELSE LET candidate == cl[j]
         IN  IF Accepts(sp, idx, candidate)
             THEN [found |-> candidate, tried |-> Append(tried, candidate)]
             ELSE NaiveScan_noseen(cl, sp, idx, j + 1, seen, Append(tried, candidate))

\* The inner loop of naive_cluster_spectra from j on.  seen is
\* seen_candidates, tried lists the candidates handed to the two tests, in
\* order.  Yields the candidate that breaks the loop (-1: none) and tried.
RECURSIVE NaiveScan(_, _, _, _, _, _)
NaiveScan(cl, sp, idx, j, seen, tried) ==
    IF ~(j < idx) THEN [found |-> -1, tried |-> tried]
    ELSE LET candidate == cl[j]
         IN  IF candidate \in seen
             THEN NaiveScan(cl, sp, idx, j + 1, seen, tried)
             ELSE IF Accepts(sp, idx, candidate)
                  THEN [found |-> candidate, tried |-> Append(tried, candidate)]
                  ELSE NaiveScan(cl, sp, idx, j + 1, seen \cup {candidate},
                                 Append(tried, candidate))

(***************************************************************************)
(* Inputs.                                                                 *)
(***************************************************************************)
\* A spectrum with more peaks than are probed: its first PROBE_COUNT peaks
\* lie in the bucket of 0, its last peak in the bucket of MaxPeak.
LongSpectra ==
    {MkSpectrum(pm, [k \in 1..(PROBE_COUNT + 1) |-> IF k <= PROBE_COUNT THEN 0 ELSE MaxPeak],
                [k \in 1..(PROBE_COUNT + 1) |-> 1]) : pm \in 0..MaxPepmass}

SpectrumPool ==
    SpectraOver(0..MaxPepmass, 0..MaxPeak, 1..MaxIntensity, MaxPeaks) \cup LongSpectra

CosPool == SpectraOver({0}, 0..CosMaxPeak, 0..CosMaxIntensity, CosMaxPeaks)

NoSpectrum == MkSpectrum(0, <<>>, <<>>)
NoScore == [score |-> 0, a_den |-> 0, b_den |-> 0, matched |-> {}]
EmptyBuckets == [key \in {} |-> <<>>]

\* spectra.size()
Size == Cardinality(DOMAIN spectra)

(***************************************************************************)
(* Clustering: both algorithms on the same input, each on its own          *)
(* identity-initialized array.                                             *)
(***************************************************************************)
Init ==
    /\ \E n \in 1..NumSpectra : spectra \in [0..(n - 1) -> SpectrumPool]
    /\ clusters = initialize_cluster(Size)
    /\ peak_buckets = EmptyBuckets
    /\ i = 0
    /\ candidates = <<>>
    /\ naive_clusters = initialize_cluster(Size)
    /\ ni = 1
    /\ tested = <<>>
    /\ ca = NoSpectrum /\ cb = NoSpectrum
    /\ cos_ab = NoScore /\ cos_ba = NoScore /\ cos_aa = NoScore
    /\ pending = FALSE

\* Registration of every spectrum, merged or not.
RegisterAlways(pb, spectrum, idx, new_cluster) == bucket_spectrum_peaks(pb, spectrum, idx)

\* Lines 135-137 of cluster_spectra: only a new representative is registered.
RegisterIfNew(pb, spectrum, idx, new_cluster) ==
    IF new_cluster THEN bucket_spectrum_peaks(pb, spectrum, idx) ELSE pb

\* One iteration of the for loop of cluster_spectra.
ClusterSpectraStep ==
    /\ i < Size
    /\ LET cands == get_common_peak_candidates(spectra[i], peak_buckets)
           found == ScanCandidates(spectra, i, cands, 1)
           new_cluster == (found = -1)
       IN  /\ candidates' = cands
           /\ clusters' = IF new_cluster THEN clusters ELSE [clusters EXCEPT ![i] = found]
           /\ peak_buckets' = RegisterIfNew(peak_buckets, spectra[i], i, new_cluster)
    /\ i' = i + 1
    /\ UNCHANGED <<spectra, naive_clusters, ni, tested>>
    /\ UNCHANGED cosVars

\* One iteration of the outer for loop of naive_cluster_spectra.
NaiveClusterStep ==
    /\ ni < Size
    /\ LET r == NaiveScan(naive_clusters, spectra, ni, 0, {}, <<>>)
       IN  /\ tested' = r.tried
           /\ naive_clusters' = IF r.found = -1 THEN naive_clusters
                                ELSE [naive_clusters EXCEPT ![ni] = r.found]
    /\ ni' = ni + 1
    /\ UNCHANGED <<spectra, clusters, peak_buckets, i, candidates>>
    /\ UNCHANGED cosVars

Next == ClusterSpectraStep \/ NaiveClusterStep

Spec == Init /\ [][Next]_vars

(***************************************************************************)
(* The similarity engine on a pair of spectra.                             *)
(***************************************************************************)
InitCos ==
    /\ ca \in CosPool
    /\ cb \in CosPool
    /\ cos_ab = NoScore /\ cos_ba = NoScore /\ cos_aa = NoScore
    /\ pending = TRUE
    /\ spectra = <<>>
    /\ clusters = <<>>
    /\ peak_buckets = EmptyBuckets
    /\ i = 0
    /\ candidates = <<>>
    /\ naive_clusters = <<>>
    /\ ni = 1
    /\ tested = <<>>

ComputeCosine ==
    /\ pending
    /\ cos_ab' = cosine_similarity(ca, cb)
    /\ cos_ba' = cosine_similarity(cb, ca)
    /\ cos_aa' = cosine_similarity(ca, ca)
    /\ pending' = FALSE
    /\ UNCHANGED <<ca, cb>>
    /\ UNCHANGED clusterVars

NextCos == ComputeCosine

SpecCos == InitCos /\ [][NextCos]_vars

\* Both entry points: a clustering run or a single similarity computation.
InitAll == Init \/ InitCos

NextAll == Next \/ NextCos

SpecAll == InitAll /\ [][NextAll]_vars

(***************************************************************************)
(* Vocabulary of the properties.                                           *)
(***************************************************************************)
Range(s) == {s[k] : k \in DOMAIN s}

SetMin(S) == CHOOSE x \in S : \A y \in S : x <= y

PepmassGap(a, b) == Abs(spectra[a].pepmass - spectra[b].pepmass)

\* The bucket keys of the first min(5, num_peaks) peaks of a spectrum.
ProbeKeys(s) == {get_peak_bucket(s.peaks[k]) : k \in 1..Min(5, s.num_peaks)}

InBuckets(r) == \E key \in DOMAIN peak_buckets : r \in Range(peak_buckets[key])

Occurrences(s, x) == Cardinality({k \in DOMAIN s : s[k] = x})

ClusterCount(cl) == Cardinality(Range(cl))

HeuristicDone == Size >= 1 /\ i = Size

NaiveDone == Size >= 1 /\ ni >= Size

\* cosine r1 > cosine r2, for two scores with non-zero denominators
MoreSimilar(r1, r2) ==
    r1.score * r1.score * r2.a_den * r2.b_den > r2.score * r2.score * r1.a_den * r1.b_den

(***************************************************************************)
(* C1.  Pepmass gate.                                                      *)
(***************************************************************************)
\* C1 as stated: once an algorithm has run, two spectra whose pepmasses
\* differ by 2.0 or more are never in the same cluster.
C1_PepmassGateAllPairs ==
    \A a, b \in DOMAIN spectra :
        PepmassGap(a, b) >= 2 =>
            /\ HeuristicDone => clusters[a] # clusters[b]
            /\ NaiveDone => naive_clusters[a] # naive_clusters[b]

\* C1 amended: a spectrum is never assigned to a representative whose
\* pepmass differs from its own by 2.0 or more, in either algorithm.
C1_PepmassGateRepresentative ==
    \A a, b \in DOMAIN spectra :
        PepmassGap(a, b) >= 2 => clusters[a] # b /\ naive_clusters[a] # b

\* Two spectra with matching peaks are kept apart by the gate alone, while a
\* third spectrum is merged across a non-zero pepmass gap.
C1_Witness ==
    /\ HeuristicDone /\ NaiveDone
    /\ \E a, b, c \in DOMAIN spectra :
        /\ a < b /\ PepmassGap(a, b) >= 2 /\ is_similar(spectra[b], spectra[a])
        /\ clusters[b] = b /\ naive_clusters[b] = b
        /\ clusters[c] = a /\ naive_clusters[c] = a /\ PepmassGap(a, c) = 1

C3_OnlyRepresentativesIndexed ==
    /\ \A key \in DOMAIN peak_buckets :
          \A p \in 1..Len(peak_buckets[key]) :
              clusters[peak_buckets[key][p]] = peak_buckets[key][p]
    /\ \A r \in DOMAIN spectra : clusters[r] # r => ~InBuckets(r)
    /\ i >= 1 =>
          \A p \in 1..Len(candidates) :
              candidates[p] < i - 1 /\ clusters[candidates[p]] = candidates[p]

\* A spectrum was merged away earlier, and the last spectrum had a candidate
\* but became a representative itself.
C3_Witness ==
    /\ HeuristicDone
    /\ \E r \in DOMAIN spectra : r < i - 1 /\ clusters[r] # r
    /\ Len(candidates) >= 1
    /\ InBuckets(i - 1)

(***************************************************************************)
(* C4.  Heuristic and naive cluster counts.                                *)
(***************************************************************************)
SharesProbeKey(a, b) == ProbeKeys(spectra[a]) \cap ProbeKeys(spectra[b]) # {}

\* No two spectra of distinct clusters of cl share a probed bucket key.
WellSeparated(cl) ==
    \A a, b \in DOMAIN spectra : cl[a] # cl[b] => ~SharesProbeKey(a, b)

\* C4 as stated: when no two spectra of distinct clusters share a probed
\* bucket key (in the partition of either algorithm), both algorithms end
\* with the same number of clusters.
C4_SameCountWhenSeparated ==
    (HeuristicDone /\ NaiveDone /\ WellSeparated(clusters) /\ WellSeparated(naive_clusters))
        => ClusterCount(clusters) = ClusterCount(naive_clusters)

\* Every pair of spectra that passes the pepmass test and is similar shares
\* a probed bucket key.
EveryMatchShares ==
    \A a, b \in DOMAIN spectra :
        (a # b /\ PepmassGap(a, b) < 2 /\ is_similar(spectra[a], spectra[b]))
            => SharesProbeKey(a, b)

\* C4 amended: when every pair of spectra that passes the pepmass test and
\* is_similar shares a bucket key among its first min(5, num_peaks) peaks,
\* both algorithms end with the same number of clusters.
C4_SameCountWhenMatchesShare ==
    (HeuristicDone /\ NaiveDone /\ EveryMatchShares)
        => ClusterCount(clusters) = ClusterCount(naive_clusters)

\* Three spectra in two clusters, a merge made through the bucket index, and
\* two spectra of distinct clusters that do share a bucket key.
C4_Witness ==
    /\ HeuristicDone /\ NaiveDone /\ EveryMatchShares
    /\ Size = 3 /\ ClusterCount(clusters) = 2 /\ ClusterCount(naive_clusters) = 2
    /\ \E a, b \in DOMAIN spectra : clusters[a] # clusters[b] /\ SharesProbeKey(a, b)

(***************************************************************************)
(* C5.  Symmetry of cosine_similarity.                                     *)
(***************************************************************************)
\* C5: the walks of cosine_similarity(a, b) and cosine_similarity(b, a)
\* match the same peak pairs and end with the same numerator and the two
\* sums of squares swapped, hence return the same value.
C5_Symmetry ==
    ~pending =>
        /\ cos_ba.matched = {<<m[2], m[1]>> : m \in cos_ab.matched}
        /\ cos_ba.score = cos_ab.score
        /\ cos_ba.a_den = cos_ab.b_den
        /\ cos_ba.b_den = cos_ab.a_den

\* Two different spectra with a matched peak pair, an unmatched peak and
\* different sums of squares.
C5_Witness ==
    /\ ~pending /\ ca # cb
    /\ cos_ab.score > 0
    /\ cos_ab.a_den > cos_ab.b_den
    /\ \E m \in cos_ab.matched : m[1] # m[2]

(***************************************************************************)
(* C6.  Self-similarity.                                                   *)
(***************************************************************************)
\* C6 as stated: for every spectrum a with at least one peak,
\* cosine_similarity(a, a) == 1.0.
C6_SelfSimilarityNonEmpty ==
    (~pending /\ ca.num_peaks >= 1) => IsOne(cos_aa)

\* C6 amended: the walk of cosine_similarity(a, a) matches every peak with
\* itself; the value is 1.0 for every spectrum with at least one peak of
\* non-zero intensity, and NaN (0/0) when all intensities are zero.
C6_SelfSimilarity ==
    (~pending /\ ca.num_peaks >= 1) =>
        /\ cos_aa.matched = {<<k, k>> : k \in 0..(ca.num_peaks - 1)}
        /\ IF \E k \in 1..ca.num_peaks : ca.intensities[k] # 0
           THEN IsOne(cos_aa)
           ELSE IsNaN(cos_aa)

\* A spectrum with two peaks close enough to be identical to each other, one
\* of them of intensity zero.
C6_Witness ==
    /\ ~pending /\ ca.num_peaks = 2
    /\ ca.peaks[2] - ca.peaks[1] = 1
    /\ ca.intensities[1] = 0 /\ ca.intensities[2] > 0
    /\ IsOne(cos_aa)

AcceptedCandidates(k) ==
    {c \in Range(candidates) :
        PepmassGap(k, c) < 2 /\ is_similar(spectra[k], spectra[c])}

\* C8: for the spectrum cluster_spectra has just processed, if some returned
\* candidate passes both tests then the spectrum is assigned to the smallest
\* such candidate and is not registered; otherwise it keeps itself as
\* representative and is registered under the bucket key of each of its
\* first min(5, num_peaks) peaks.
C8_FirstFit ==
    i >= 1 =>
        IF AcceptedCandidates(i - 1) # {}
        THEN /\ clusters[i - 1] = SetMin(AcceptedCandidates(i - 1))
             /\ ~InBuckets(i - 1)
        ELSE /\ clusters[i - 1] = i - 1
             /\ \A key \in ProbeKeys(spectra[i - 1]) :
                    i - 1 \in Range(BucketList(peak_buckets, key))
             /\ \A key \in DOMAIN peak_buckets :
                    i - 1 \in Range(peak_buckets[key]) => key \in ProbeKeys(spectra[i - 1])

\* Two candidates pass both tests and the one chosen, the smaller index, is
\* the less similar of the two.
C8_Witness ==
    /\ i >= 1
    /\ \E c \in AcceptedCandidates(i - 1) :
          /\ c # clusters[i - 1]
          /\ MoreSimilar(cosine_similarity(spectra[i - 1], spectra[c]),
                         cosine_similarity(spectra[i - 1], spectra[clusters[i - 1]]))

(***************************************************************************)
(* C9.  Flat representative arrays.                                        *)
(***************************************************************************)
\* C9: in both arrays every entry is at most its index and is itself a
\* cluster root.
C9_Flat ==
    \A k \in DOMAIN spectra :
        /\ clusters[k] <= k
        /\ clusters[clusters[k]] = clusters[k]
        /\ naive_clusters[k] <= k
        /\ naive_clusters[naive_clusters[k]] = naive_clusters[k]

\* In both runs the last spectrum joined the cluster of spectrum 0 although
\* it is not accepted by spectrum 1, an earlier member of that cluster.
C9_Witness ==
    /\ HeuristicDone /\ NaiveDone /\ Size = 3
    /\ clusters = (0 :> 0 @@ 1 :> 0 @@ 2 :> 0)
    /\ naive_clusters = clusters
    /\ ~(PepmassGap(2, 1) < 2 /\ is_similar(spectra[2], spectra[1]))

(***************************************************************************)
(* C10.  Naive scan order.                                                 *)
(***************************************************************************)
\* The roots among the spectra before k that pass both tests against k.
AcceptedRoots(k) ==
    {r \in 0..(k - 1) :
        /\ naive_clusters[r] = r
        /\ PepmassGap(k, r) < 2
        /\ is_similar(spectra[k], spectra[r])}

\* C10: for the spectrum naive_cluster_spectra has just processed, the
\* candidates tested are representatives in strictly ascending index order
\* (so none is tested twice), and the spectrum ends at the smallest-index
\* representative that passes both tests, or at itself if none does.
C10_NaiveSmallestRepresentative ==
    ni >= 2 =>
        /\ \A p \in 1..(Len(tested) - 1) : tested[p] < tested[p + 1]
        /\ \A p \in 1..Len(tested) : naive_clusters[tested[p]] = tested[p]
        /\ naive_clusters[ni - 1] =
              IF AcceptedRoots(ni - 1) = {} THEN ni - 1 ELSE SetMin(AcceptedRoots(ni - 1))

\* Spectrum 1 is a member of the cluster of spectrum 0; spectrum 2 was tested
\* against representative 0 once, rejected, and stays its own representative.
C10_Witness ==
    /\ ni = 3 /\ Size = 3
    /\ naive_clusters[1] = 0
    /\ tested = <<0>>
    /\ naive_clusters[2] = 2

====
